---- MODULE Spec2Model ----
(***************************************************************************)
(* Model of the scene-transition / interrupt-resume state machine of       *)
(* InteractiveVideoApp (src/Interactive_video.py).                         *)
(*                                                                         *)
(* The Tk event loop runs one callback at a time: every action below is    *)
(* one whole callback (a button command, a timer callback, a VLC event).   *)
(* Where a class defines a method twice, the later definition is the one   *)
(* Python binds, and the one modelled.                                     *)
(* Python's None is the string "None"; a missing "next" is "".             *)
(***************************************************************************)
EXTENDS Integers, Sequences, FiniteSets, TLC

VARIABLES
    cfg,              \* config.yaml: "valid" | "not_found" | "unparseable" (both leave
                      \* config = {}) | "not_mapping" (safe_load returns None, a list, a scalar)
    missing,          \* scene ids whose video file does not exist on disk
    alive,            \* FALSE when __init__ raised: no application object exists
    current_video,    \* self.current_video
    resume_video,     \* self.resume_video
    resume_time,      \* self.resume_time
    player_media,     \* scene whose clip self.player holds ("None": no media)
    player_state,     \* "Idle" | "Playing" | "Paused" | "Ended"
    attached,         \* EndReached listeners registered with libvlc (counted up to MaxAttach)
    pending,          \* root.after callbacks not yet run, in scheduling order
    cq_visible,       \* cq_options_frame is placed
    cq_buttons,       \* labels of the buttons on the topmost cq button frame
    interrupt_visible,\* interrupt_fg is placed
    normal_section,   \* self.normal_section: "None" | "Frame"
    normal_visible,   \* normal_section is placed
    normal_buttons,   \* labels of the buttons displayed in normal_section
    skip_button,      \* self.skip_button: "unset" (attribute missing) | "Button"
    skip_visible,     \* skip_button is mapped
    cmds,             \* capability calls issued by the callback that ran last
    last              \* the callback that ran last (the reposition tick aside), its input

vars == <<cfg, missing, alive, current_video, resume_video, resume_time,
          player_media, player_state, attached, pending,
          cq_visible, cq_buttons, interrupt_visible, normal_section,
          normal_visible, normal_buttons, skip_button, skip_visible, cmds, last>>

(***************************************************************************)
(* Bounds                                                                  *)
(***************************************************************************)
MaxTime == 1        \* playback positions 0..MaxTime
MaxPending == 2     \* root.after callbacks outstanding at once
MaxAttach == 2      \* EndReached listeners counted one by one

None == "None"
NoTime == -2        \* play_video(resume_time=None)

(***************************************************************************)
(* Configuration (config.yaml as load_config leaves it in self.config)     *)
(***************************************************************************)
Opt(l, n, t) == [label |-> l, next |-> n, temporary |-> t]

SceneOptions ==
    [s1 |-> [scene_type |-> "continue", default_next_scene |-> "",
             choices |-> <<Opt("Peek", "s1b", TRUE), Opt("Go", "s2", FALSE),
                           Opt("Peek2", "s2", TRUE), Opt("Stay", "", FALSE),
                           Opt("Hold", "", TRUE)>>],
     s1b |-> [scene_type |-> "", default_next_scene |-> "",
              choices |-> <<Opt("Back", "s1", FALSE)>>],
     s2 |-> [scene_type |-> "Main", default_next_scene |-> "s1b",
             choices |-> <<Opt("Back", "s1", FALSE), Opt("Next", "s1b", FALSE)>>]]

NoOptions == [scene_type |-> "", default_next_scene |-> "", choices |-> <<>>]

VideoIds == {"s1", "s1b", "s2"}
MissingCandidates == {"s1"}

\* load_config: a missing file and a YAML error both leave config = {};
\* anything else safe_load returns is stored as it is.
ConfigValues == {"valid", "not_found", "unparseable", "not_mapping"}
ConfigIsMapping == cfg # "not_mapping"

ConfigStart == IF cfg = "valid" THEN "s1" ELSE ""
ConfigVideos == IF cfg = "valid" THEN VideoIds ELSE {}
OptionsData(id) ==
    IF cfg = "valid" /\ id \in DOMAIN SceneOptions THEN SceneOptions[id] ELSE NoOptions

\* The ids config["videos"] and config["options"] know.
SceneIds == ConfigVideos \cup (IF cfg = "valid" THEN DOMAIN SceneOptions ELSE {})

GoBack == Opt("Go Back", "previous_scene", FALSE)

Range(f) == {f[i] : i \in DOMAIN f}
AllOptions ==
    UNION {Range(SceneOptions[id].choices) : id \in DOMAIN SceneOptions} \cup {GoBack}

Lower(x) ==
    CASE x = "Main" -> "main"
      [] OTHER -> x

Truthy(x) == x # None /\ x # ""

get_scene_type(s) == Lower(OptionsData(s.current_video).scene_type)

\* Variant: the overlay lists every choice.
AllLabels(choices) == [i \in DOMAIN choices |-> choices[i].label]

NonTemporaryLabels(choices) ==
    LET keep(o) == ~o.temporary
        kept == SelectSeq(choices, keep)
    IN [i \in DOMAIN kept |-> kept[i].label]

temporary_choices_exist(id) ==
    \E o \in Range(OptionsData(id).choices) : o.temporary

\* resource_path(videos.get(id, "")) and os.path.exists: without an entry the
\* path is the base directory itself, which exists.
VideoPathExists(id) == IF id \in ConfigVideos THEN id \notin missing ELSE TRUE

(***************************************************************************)
(* Program state as one record, so that a callback is a composition of the *)
(* methods it calls.                                                       *)
(***************************************************************************)
Cmd(c, sc, t) == [cmd |-> c, scene |-> sc, t |-> t]
Task(k, t, sc) == [kind |-> k, t |-> t, for |-> sc]

Delay(k) ==
    CASE k = "handle_video_end" -> 0
      [] k = "set_time" -> 50
      [] k = "play" -> 100
      [] k = "skip_interrupt" -> 500

Cur ==
    [current_video |-> current_video, resume_video |-> resume_video,
     resume_time |-> resume_time, player_media |-> player_media,
     player_state |-> player_state, attached |-> attached, pending |-> pending, cq_visible |-> cq_visible,
     cq_buttons |-> cq_buttons, interrupt_visible |-> interrupt_visible,
     normal_section |-> normal_section, normal_visible |-> normal_visible,
     normal_buttons |-> normal_buttons, skip_button |-> skip_button,
     skip_visible |-> skip_visible, cmds |-> <<>>]

Raised(s) == Len(s.cmds) > 0 /\ s.cmds[Len(s.cmds)].cmd = "raise"

Fields(s) ==
    /\ current_video' = s.current_video
    /\ resume_video' = s.resume_video
    /\ resume_time' = s.resume_time
    /\ player_media' = s.player_media
    /\ player_state' = s.player_state
    /\ attached' = s.attached
    /\ pending' = s.pending
    /\ cq_visible' = s.cq_visible
    /\ cq_buttons' = s.cq_buttons
    /\ interrupt_visible' = s.interrupt_visible
    /\ normal_section' = s.normal_section
    /\ normal_visible' = s.normal_visible
    /\ normal_buttons' = s.normal_buttons
    /\ skip_button' = s.skip_button
    /\ skip_visible' = s.skip_visible
    /\ cmds' = s.cmds

Commit(s) ==
    /\ Len(s.pending) <= MaxPending
    /\ Fields(s)
    /\ UNCHANGED <<cfg, missing, alive>>

\* interrupted: an interruption was pending when the callback started.
Op(name, o, n, st) ==
    [op |-> name, opt |-> o, n |-> n, stale |-> st,
     interrupted |-> resume_video # None]
NoOpt == Opt("", "", FALSE)

(***************************************************************************)
(* Presentation helpers                                                    *)
(***************************************************************************)
Issue(s, c) == [s EXCEPT !.cmds = Append(@, c)]

clear_interrupt_overlays(s) == [s EXCEPT !.interrupt_visible = FALSE]

clear_subframes(s) == [s EXCEPT !.interrupt_visible = FALSE]

\* cq_options_frame.place_forget() hides the canvas and keeps its children.
clear_all_overlays(s) ==
    Issue([s EXCEPT !.cq_visible = FALSE, !.interrupt_visible = FALSE],
          Cmd("clear_all_overlays", s.current_video, 0))

hide_skip_button(s) ==
    IF s.skip_button = "unset"
    THEN Issue(s, Cmd("raise", "AttributeError", 0))
    ELSE [s EXCEPT !.skip_visible = FALSE]

\* The binding of ensure_skip_button creates a button only when none exists
\* and never places an existing one.
ensure_skip_button(s) ==
    IF s.skip_button = "unset"
    THEN Issue(s, Cmd("raise", "AttributeError", 0))
    ELSE s

SkipButtonStep(s) ==
    IF Truthy(s.resume_video) THEN ensure_skip_button(s) ELSE hide_skip_button(s)

(***************************************************************************)
(* play_video                                                              *)
(***************************************************************************)
Min(a, b) == IF a < b THEN a ELSE b

\* player.stop(); set_media(); event_attach(EndReached); player.play()
\* Every call registers on_video_end once more with the player's event manager.
LoadAndPlay(s) ==
    Issue([s EXCEPT !.player_media = s.current_video,
                    !.player_state = "Playing",
                    !.attached = Min(@ + 1, MaxAttach)],
          Cmd("play", s.current_video, 0))

\* player.pause(); after(50, set_time(resume_time)); after(100, play())
ScheduleSeek(s, rt) ==
    IF rt = NoTime THEN s
    ELSE Issue([s EXCEPT !.player_state = "Paused",
                         !.pending = @ \o <<Task("set_time", rt, s.current_video),
                                            Task("play", 0, s.current_video)>>],
               Cmd("pause", s.current_video, 0))

play_video(s, rt) ==
    LET s0 == clear_subframes(clear_interrupt_overlays(s)) IN
    IF VideoPathExists(s0.current_video)
    THEN LET s1 == SkipButtonStep(LoadAndPlay(s0)) IN
         IF Raised(s1) THEN s1
         ELSE SkipButtonStep(ScheduleSeek(s1, rt))
    ELSE Issue(s0, Cmd("showerror", s0.current_video, 0))

(***************************************************************************)
(* Overlays shown at the end of a clip                                     *)
(***************************************************************************)
show_cq_options_overlay(s) ==
    LET s0 == clear_all_overlays(s) IN
    Issue([s0 EXCEPT !.cq_visible = TRUE,
                     !.cq_buttons =
                         NonTemporaryLabels(OptionsData(s0.current_video).choices)],
          Cmd("show_cq", s0.current_video, 0))

\* The panel gets one hard-coded "Go Back" button; nothing is scheduled.
show_main_options_overlay(s) ==
    LET s0 == clear_all_overlays(s) IN
    Issue([s0 EXCEPT !.normal_section = "Frame",
                     !.normal_visible = TRUE,
                     !.normal_buttons = @ \cup {GoBack.label}],
          Cmd("show_main", s0.current_video, 0))

\* normal_section.winfo_children() raises while normal_section is None.
\* create_option_frame builds each choice's button without packing it.
show_normal_section(s) ==
    IF s.normal_section = None
    THEN Issue(s, Cmd("raise", "AttributeError", 0))
    ELSE Issue([s EXCEPT !.normal_buttons = {}],
               Cmd("show_normal", s.current_video, 0))

handle_video_end(s) ==
    IF Truthy(s.resume_video)
    THEN [s EXCEPT !.pending = Append(@, Task("skip_interrupt", 0, s.current_video))]
    ELSE IF get_scene_type(s) \in {"continue", "question"}
         THEN show_cq_options_overlay(s)
         ELSE IF get_scene_type(s) = "main"
              THEN show_main_options_overlay(s)
              ELSE show_normal_section(clear_subframes(s))

(***************************************************************************)
(* skip_interrupt and handle_option                                        *)
(***************************************************************************)
ResumeBase(s) ==
    [s EXCEPT !.current_video = s.resume_video, !.resume_video = None]

\* Variant: skip_interrupt does not test resume_video.
skip_interrupt_unguarded(s) ==
    play_video(ResumeBase(clear_all_overlays(s)), s.resume_time)

skip_interrupt(s) ==
    IF Truthy(s.resume_video)
    THEN play_video(ResumeBase(clear_all_overlays(s)), s.resume_time)
    ELSE s

\* Variant: every temporary choice captures a new resume point.
temporary_transition_overwrites(s, o, t) ==
    [s EXCEPT !.resume_video = s.current_video, !.resume_time = t,
              !.current_video = o.next]

\* Variant: the resume point is captured after the scene was switched.
temporary_transition_late(s, o, t) ==
    LET s0 == [s EXCEPT !.current_video = o.next] IN
    IF s.resume_video = None
    THEN [s0 EXCEPT !.resume_video = s0.current_video, !.resume_time = t]
    ELSE s0

\* t is what self.player.get_time() returns when it is read.
temporary_transition(s, o, t) ==
    LET s0 == IF s.resume_video = None
              THEN [s EXCEPT !.resume_video = s.current_video,
                             !.resume_time = t]
              ELSE s
    IN [s0 EXCEPT !.current_video = o.next]

\* Variant: a regular transition leaves the resume point alone.
regular_transition_keeps_resume(s, o) == [s EXCEPT !.current_video = o.next]

regular_transition(s, o) ==
    [s EXCEPT !.current_video = o.next, !.resume_video = None, !.resume_time = 0]

\* Variant: the choice's target is not tested.
handle_option_unguarded(s, o, t) ==
    play_video(clear_all_overlays(IF o.temporary
                                  THEN temporary_transition(s, o, t)
                                  ELSE regular_transition(s, o)),
               NoTime)

handle_option(s, o, t) ==
    IF o.next # ""
    THEN play_video(clear_all_overlays(IF o.temporary
                                       THEN temporary_transition(s, o, t)
                                       ELSE regular_transition(s, o)),
                    NoTime)
    ELSE s

\* Defined and never called: nothing schedules the automatic transition.
\* clear_options() reads self.options_frame, which no code sets.
auto_advance_main_scene(s, next_scene_id) ==
    IF s.player_state = "Ended"
    THEN Issue([s EXCEPT !.current_video = next_scene_id],
               Cmd("raise", "AttributeError", 0))
    ELSE s

(***************************************************************************)
(* Construction                                                            *)
(***************************************************************************)
\* __init__ up to and including its call of play_video(): skip_button is
\* assigned only after that call.
Constructing ==
    [current_video |-> ConfigStart, resume_video |-> None, resume_time |-> 0,
     player_media |-> None, player_state |-> "Idle",
     attached |-> 1, pending |-> <<>>, cq_visible |-> FALSE, cq_buttons |-> <<>>,
     interrupt_visible |-> FALSE, normal_section |-> "unset",
     normal_visible |-> FALSE, normal_buttons |-> {}, skip_button |-> "unset",
     skip_visible |-> FALSE, cmds |-> <<>>]

\* self.config.get("start", "") raises when config is no mapping: nothing
\* after it is assigned, and no application object exists whose fields could
\* be read.
Constructed ==
    IF ~ConfigIsMapping
    THEN Issue([Constructing EXCEPT !.current_video = "unset", !.attached = 0],
               Cmd("raise", "AttributeError", 0))
    ELSE LET s == play_video(Constructing, NoTime) IN
         IF Raised(s) THEN s
         ELSE [s EXCEPT !.normal_section = None, !.skip_button = "Button",
                        !.skip_visible = FALSE]

Init ==
    /\ cfg \in ConfigValues
    /\ missing \in SUBSET MissingCandidates
    /\ alive = ~Raised(Constructed)
    /\ current_video = Constructed.current_video
    /\ resume_video = Constructed.resume_video
    /\ resume_time = Constructed.resume_time
    /\ player_media = Constructed.player_media
    /\ player_state = Constructed.player_state
    /\ attached = Constructed.attached
    /\ pending = Constructed.pending
    /\ cq_visible = Constructed.cq_visible
    /\ cq_buttons = Constructed.cq_buttons
    /\ interrupt_visible = Constructed.interrupt_visible
    /\ normal_section = Constructed.normal_section
    /\ normal_visible = Constructed.normal_visible
    /\ normal_buttons = Constructed.normal_buttons
    /\ skip_button = Constructed.skip_button
    /\ skip_visible = Constructed.skip_visible
    /\ cmds = Constructed.cmds
    /\ last = Op("__init__", NoOpt, 0, FALSE)

(***************************************************************************)
(* Actions: one per callback                                               *)
(***************************************************************************)
\* player.get_time(): -1 without media, else the position of the clip.
Positions == IF player_media = None THEN {-1} ELSE 0..MaxTime

\* The position is read only when a temporary choice starts an interruption.
ReadsPosition(o) == o.next # "" /\ o.temporary /\ resume_video = None

\* A button bound to option o is pressed.
UserSelect(o) ==
    /\ alive
    /\ \E t \in (IF ReadsPosition(o) THEN Positions ELSE {0}) :
          /\ Commit(handle_option(Cur, o, t))
          /\ last' = Op("handle_option", o, t, FALSE)

\* The skip button's command.
UserSkip ==
    /\ alive
    /\ Commit(skip_interrupt(Cur))
    /\ last' = Op("skip_interrupt", NoOpt, 0, FALSE)

HandlerTasks(n, sc) == [i \in 1..n |-> Task("handle_video_end", 0, sc)]

\* Variant: the listener runs the end-of-clip handling itself, on libvlc's
\* thread, instead of scheduling it.
MediaPlayerEndReached_handles_inline ==
    /\ alive
    /\ player_state = "Playing"
    /\ Commit(handle_video_end([Cur EXCEPT !.player_state = "Ended"]))
    /\ last' = Op("on_video_end", NoOpt, attached, FALSE)

\* The clip ends: libvlc calls every registered listener, on its own thread,
\* and each call runs on_video_end, i.e. root.after(0, handle_video_end).
\* player.event_manager() hands out one manager per player, and attaching the
\* same callback to it again registers one more listener.
MediaPlayerEndReached ==
    /\ alive
    /\ player_state = "Playing"
    /\ Commit([Cur EXCEPT !.player_state = "Ended",
                          !.pending = @ \o HandlerTasks(attached, current_video)])
    /\ last' = Op("on_video_end", NoOpt, attached, FALSE)

\* Tk runs timers in order of due time: a callback scheduled earlier with a
\* delay no longer than another's runs before it.
\* after(500, adjust_window_size) and after(100, _reveal_cq_overlay) are not
\* queued: the first resizes video_frame, the second lifts widgets only when
\* cq_bg_overlay exists, which no code assigns; neither touches a variable
\* of this module.
Due(i) ==
    /\ i \in DOMAIN pending
    /\ \A j \in 1..(i - 1) : Delay(pending[j].kind) > Delay(pending[i].kind)

\* The callback was scheduled while another scene was the current one.
Stale(i) == pending[i].for # current_video

Remove(q, i) == SubSeq(q, 1, i - 1) \o SubSeq(q, i + 1, Len(q))

Taken(i) == [Cur EXCEPT !.pending = Remove(pending, i)]

RunHandleVideoEnd ==
    /\ alive
    /\ \E i \in DOMAIN pending :
          /\ Due(i)
          /\ pending[i].kind = "handle_video_end"
          /\ Commit(handle_video_end(Taken(i)))
          /\ last' = Op("handle_video_end", NoOpt, 0, Stale(i))

RunSkipInterrupt ==
    /\ alive
    /\ \E i \in DOMAIN pending :
          /\ Due(i)
          /\ pending[i].kind = "skip_interrupt"
          /\ Commit(skip_interrupt(Taken(i)))
          /\ last' = Op("after_skip_interrupt", NoOpt, 0, Stale(i))

\* lambda: self.player.set_time(resume_time)
set_time(s, t) == Issue(s, Cmd("set_time", s.player_media, t))

RunSetTime ==
    /\ alive
    /\ \E i \in DOMAIN pending :
          /\ Due(i)
          /\ pending[i].kind = "set_time"
          /\ Commit(set_time(Taken(i), pending[i].t))
          /\ last' = Op("set_time", NoOpt, pending[i].t, Stale(i))

\* lambda: self.player.play()
player_play(s) ==
    Issue(IF s.player_state = "Paused" THEN [s EXCEPT !.player_state = "Playing"] ELSE s,
          Cmd("resume_play", s.player_media, 0))

RunPlay ==
    /\ alive
    /\ \E i \in DOMAIN pending :
          /\ Due(i)
          /\ pending[i].kind = "play"
          /\ Commit(player_play(Taken(i)))
          /\ last' = Op("play", NoOpt, 0, Stale(i))

\* Variant: the tick also resets the recorded position.
periodic_update_overlay_resets(s) == [s EXCEPT !.cq_visible = TRUE, !.resume_time = 0]

\* The self-rescheduling 1000 ms tick: a Tk widget is truthy, so the frame is
\* placed again on every tick.
periodic_update_overlay(s) == [s EXCEPT !.cq_visible = TRUE]

PeriodicUpdateOverlay ==
    /\ alive
    /\ Commit([periodic_update_overlay(Cur) EXCEPT !.cmds = cmds])
    /\ UNCHANGED last

Next ==
    \/ \E o \in AllOptions : UserSelect(o)
    \/ UserSkip
    \/ MediaPlayerEndReached
    \/ RunHandleVideoEnd
    \/ RunSkipInterrupt
    \/ RunSetTime
    \/ RunPlay
    \/ PeriodicUpdateOverlay

Spec == Init /\ [][Next]_vars

(***************************************************************************)
(* Properties                                                              *)
(***************************************************************************)
HasTarget(o) == o.next # ""

\* The step is the named callback. Every callback records itself in last, so
\* the conjuncts on last' are implied by the action that follows them.
Selects(o) == last'.op = "handle_option" /\ last'.opt = o /\ UserSelect(o)
Skips == last'.op = "skip_interrupt" /\ UserSkip
Resumes == last'.op = "after_skip_interrupt" /\ RunSkipInterrupt
Completes == last'.op = "handle_video_end" /\ RunHandleVideoEnd
PlaybackState == <<current_video, resume_video, resume_time>>
SeekScheduled(q, t) == \E i \in DOMAIN q : q[i].kind = "set_time" /\ q[i].t = t

\* C1: after handle_option ran for a non-temporary choice with a target,
\* current_video is that target, resume_video is None and resume_time is 0,
\* whether or not an interruption was pending before.
C1_NonTemporaryClearsResume ==
    (last.op = "handle_option" /\ HasTarget(last.opt) /\ ~last.opt.temporary)
        => /\ current_video = last.opt.next
           /\ resume_video = None
           /\ resume_time = 0

C1_Witness ==
    /\ last.op = "handle_option"
    /\ last.opt.label = "Go"
    /\ last.interrupted
    /\ current_video = "s2"
    /\ resume_video = None
    /\ resume_time = 0

\* C2: while an interruption is pending, a temporary choice with a target
\* changes current_video to its target and leaves resume_video and
\* resume_time as they are, and so does every other step that is neither a
\* skip, nor the resume scheduled at the end of a clip, nor a non-temporary
\* selection: the resume point stays the one captured at the first temporary
\* choice of the sequence.
C2_FirstResumePointKept ==
    [][/\ \A o \in AllOptions :
            (o.temporary /\ HasTarget(o) /\ resume_video # None /\ Selects(o))
                => /\ current_video' = o.next
                   /\ resume_video' = resume_video
                   /\ resume_time' = resume_time
       /\ (/\ resume_video # None
           /\ ~Skips
           /\ ~Resumes
           /\ ~\E o \in AllOptions : ~o.temporary /\ HasTarget(o) /\ Selects(o))
                => /\ resume_video' = resume_video
                   /\ resume_time' = resume_time]_vars

C2_Witness ==
    /\ last.op = "handle_option"
    /\ last.opt.label = "Peek2"
    /\ last.interrupted
    /\ resume_video = "s1"
    /\ resume_time = 1
    /\ current_video = "s2"

\* C3: a temporary choice with a target, selected while resume_video is None,
\* sets resume_video to the scene that was current, resume_time to the position
\* the player reported for that selection, and current_video to the target.
C3_TemporaryCapturesResumePoint ==
    [][\A o \in AllOptions :
          (o.temporary /\ HasTarget(o) /\ resume_video = None /\ Selects(o))
              => /\ resume_video' = current_video
                 /\ resume_time' = last'.n
                 /\ last'.n \in Positions
                 /\ current_video' = o.next]_vars

C3_Witness ==
    /\ last.op = "handle_option"
    /\ last.opt.label = "Peek"
    /\ ~last.interrupted
    /\ last.n = 1
    /\ resume_video = "s2"
    /\ resume_time = 1
    /\ current_video = "s1b"

\* C4: a skip with an interruption pending makes the recorded resume scene the
\* current one, schedules the seek to the recorded position when that scene's
\* clip is loaded, and clears both resume fields.
C4_SkipResumesAndClears ==
    [][(UserSkip /\ Truthy(resume_video))
          => /\ current_video' = resume_video
             /\ VideoPathExists(resume_video) => SeekScheduled(pending', resume_time)
             /\ resume_video' = None
             /\ resume_time' = 0]_vars

\* C5: resume_video is None exactly when resume_time is 0.
C5_ResumeFieldsPaired ==
    alive => ((resume_video = None) <=> (resume_time = 0))

\* C6: the resume scheduled at the end of an interrupting clip, when it runs
\* with the interruption still pending, leaves the state a skip is specified
\* to produce: the resume scene current, the seek to the recorded position
\* scheduled, both resume fields cleared, and no choice overlay built.
C6_CompletionResumesLikeSkip ==
    [][(RunSkipInterrupt /\ Truthy(resume_video))
          => /\ current_video' = resume_video
             /\ VideoPathExists(resume_video) => SeekScheduled(pending', resume_time)
             /\ resume_video' = None
             /\ resume_time' = 0
             /\ cq_buttons' = cq_buttons]_vars

\* C7: handle_video_end run for a completion that was raised while another
\* scene was current changes no PlaybackState field, shows no overlay or panel
\* and schedules nothing.
C7_StaleCompletionDiscarded ==
    [][(RunHandleVideoEnd /\ last'.stale)
          => /\ UNCHANGED PlaybackState
             /\ UNCHANGED <<cq_visible, cq_buttons, normal_section,
                            normal_visible, normal_buttons>>
             /\ Len(pending') = Len(pending) - 1]_vars

\* C8: the end of a clip dispatches handle_video_end exactly once.
C8_OneDispatchPerCompletion ==
    last.op = "on_video_end" => last.n = 1

\* C9: when handle_video_end runs with no interruption pending for a scene
\* of type continue or question, the overlay is shown with the scene's
\* non-temporary choices, in configuration order, and none of its temporary
\* ones, and PlaybackState is unchanged; with no interruption pending only a
\* selection changes PlaybackState.
OffersNonTemporaryInOrder(buttons, choices) ==
    /\ \A i \in DOMAIN choices :
          choices[i].temporary <=> choices[i].label \notin Range(buttons)
    /\ Len(buttons) = Cardinality({i \in DOMAIN choices : ~choices[i].temporary})
    /\ \A a, b \in DOMAIN buttons :
          a < b => \E i, j \in DOMAIN choices :
                      /\ i < j
                      /\ choices[i].label = buttons[a]
                      /\ choices[j].label = buttons[b]

C9_OverlayOffersNonTemporary ==
    [][/\ (/\ ~Truthy(resume_video)
           /\ get_scene_type(Cur) \in {"continue", "question"}
           /\ Completes)
              => /\ cq_visible'
                 /\ OffersNonTemporaryInOrder(cq_buttons',
                                              OptionsData(current_video).choices)
                 /\ UNCHANGED PlaybackState
       /\ (resume_video = None /\ PlaybackState' # PlaybackState)
              => \E o \in AllOptions : Selects(o)]_vars

C9_Witness ==
    /\ last.op = "handle_video_end"
    /\ ~last.interrupted
    /\ current_video = "s1"
    /\ resume_video = None
    /\ cq_visible
    /\ cq_buttons = <<"Go", "Stay">>

\* C10: when handle_video_end runs with no interruption pending for a main
\* scene that has a default_next_scene, the panel shown offers the scene's own
\* choices and the transition to default_next_scene is scheduled.
C10_MainSceneAutoAdvances ==
    [][(/\ RunHandleVideoEnd
        /\ ~Truthy(resume_video)
        /\ get_scene_type(Cur) = "main"
        /\ OptionsData(current_video).default_next_scene # "")
          => /\ normal_visible'
             /\ normal_buttons' =
                   {c.label : c \in Range(OptionsData(current_video).choices)}
             /\ \E i \in DOMAIN pending' :
                   pending'[i].kind = "auto_advance_main_scene"]_vars

\* C11: when handle_video_end runs with no interruption pending for a scene
\* whose scene_type is neither continue, question nor main, it completes
\* without raising, no overlay stays up, and the generic panel is visible
\* with a button for every non-temporary choice of the scene, whether or not
\* a main scene created the panel before.
C11_GenericPanelShown ==
    [][(/\ RunHandleVideoEnd
        /\ ~Truthy(resume_video)
        /\ get_scene_type(Cur) \notin {"continue", "question", "main"})
          => /\ ~Raised([cmds |-> cmds'])
             /\ ~interrupt_visible'
             /\ normal_visible'
             /\ normal_buttons' =
                   {c.label : c \in {d \in Range(OptionsData(current_video).choices) :
                                        ~d.temporary}}]_vars

\* C12: selecting a choice without a target, temporary or not, changes no
\* PlaybackState field, issues no command to the player (no play, no stop, no
\* seek), schedules nothing and leaves every overlay and panel as it was.
C12_NoTargetIsNoOp ==
    [][\A o \in AllOptions :
          (~HasTarget(o) /\ Selects(o))
              => /\ UNCHANGED PlaybackState
                 /\ cmds' = <<>>
                 /\ UNCHANGED <<player_media, player_state, attached, pending,
                                cq_visible, cq_buttons, interrupt_visible,
                                normal_section, normal_visible, normal_buttons,
                                skip_visible>>]_vars

C12_Witness ==
    /\ last.op = "handle_option"
    /\ last.opt.label = "Hold"
    /\ last.opt.temporary
    /\ last.interrupted
    /\ resume_video = "s2"
    /\ current_video = "s1b"
    /\ player_state = "Playing"
    /\ cmds = <<>>

Notice(c) == \E i \in DOMAIN c : c[i].cmd = "showerror"

\* C13: selecting a choice whose target is no scene of the configuration
\* leaves current_video, resume_video and resume_time as they were.
C13_UnknownTargetNoChange ==
    [][\A o \in AllOptions :
          (UserSelect(o) /\ HasTarget(o) /\ o.next \notin SceneIds)
              => UNCHANGED PlaybackState]_vars

\* C14: a selection, a skip or a scheduled resume whose target scene has a
\* video entry with no file on disk shows the error notice and leaves
\* current_video at the scene it was.
C14_MissingAssetStays ==
    [][/\ \A o \in AllOptions :
            (UserSelect(o) /\ HasTarget(o) /\ ~VideoPathExists(o.next))
                => /\ Notice(cmds')
                   /\ current_video' = current_video
       /\ ((UserSkip \/ RunSkipInterrupt)
              /\ Truthy(resume_video) /\ ~VideoPathExists(resume_video))
                => /\ Notice(cmds')
                   /\ current_video' = current_video]_vars

\* C15: while the application runs, current_video is a scene id of the
\* configuration, or "" when no configuration was loaded.
C15_CurrentSceneValid ==
    alive => current_video \in (IF cfg = "valid" THEN SceneIds ELSE {""})

BaseScene == IF Truthy(resume_video) THEN resume_video ELSE current_video

\* C16: while the application runs, the panel of temporary-choice buttons is
\* visible exactly when the base scene (resume_video if set, else
\* current_video) has a temporary choice.
C16_InterruptAffordanceTracks ==
    alive => (interrupt_visible <=> temporary_choices_exist(BaseScene))

\* C17: with a configuration file that is missing, unparseable, empty or no
\* mapping, construction completes: the application runs with current_video
\* at "" and nothing raised.
C17_BadConfigStartsEmpty ==
    (cfg # "valid" /\ last.op = "__init__")
        => /\ alive
           /\ current_video = ""
           /\ ~Raised([cmds |-> cmds])

\* C18: with a valid configuration whose start clip exists, construction runs
\* to its end: current_video is the start scene, no interruption is pending,
\* exactly one play command was issued for the start clip and the skip
\* button exists.
C18_StartupPlaysStart ==
    (cfg = "valid" /\ VideoPathExists(ConfigStart) /\ last.op = "__init__")
        => /\ alive
           /\ current_video = ConfigStart
           /\ resume_video = None
           /\ Cardinality({i \in DOMAIN cmds : cmds[i] = Cmd("play", ConfigStart, 0)}) = 1
           /\ ~Raised([cmds |-> cmds])
           /\ skip_button = "Button"

\* C19: while the application runs, a clip is playing (its end will be
\* dispatched), or a callback is scheduled, or a choice overlay or panel with
\* at least one button, or the interrupt panel, is visible.
C19_NoDeadEnd ==
    alive => \/ player_state = "Playing"
             \/ pending # <<>>
             \/ cq_visible /\ cq_buttons # <<>>
             \/ normal_visible /\ normal_buttons # {}
             \/ interrupt_visible

\* C20: a scheduled skip_interrupt, set_time or play callback that runs after
\* current_video changed from the scene it was scheduled for changes no
\* PlaybackState field and issues no command to the player.
C20_StaleCallbackIsNoOp ==
    [][((RunSkipInterrupt \/ RunSetTime \/ RunPlay) /\ last'.stale)
          => /\ UNCHANGED PlaybackState
             /\ cmds' = <<>>]_vars

PlaysOnceAfterClear(c, sc) ==
    /\ Cardinality({i \in DOMAIN c : c[i].cmd = "play"}) = 1
    /\ \E i, j \in DOMAIN c :
          /\ i < j
          /\ c[i].cmd = "clear_all_overlays"
          /\ c[j] = Cmd("play", sc, 0)

\* C21: every step that changes current_video issues exactly one play
\* command, for the clip of the new scene, after a clear_all_overlays of the
\* same step.
C21_SceneChangePlaysOnce ==
    [][current_video' # current_video
          => PlaysOnceAfterClear(cmds', current_video')]_vars

\* C22: the skip button is visible only while an interruption is pending, and
\* it is visible after a scene was loaded with an interruption pending (a
\* temporary choice whose target clip exists).
C22_SkipControlTracksInterruption ==
    /\ skip_visible => resume_video # None
    /\ (/\ alive
        /\ last.op = "handle_option"
        /\ last.opt.temporary
        /\ HasTarget(last.opt)
        /\ VideoPathExists(last.opt.next)
        /\ resume_video # None)
          => skip_visible

\* C23: the reposition tick changes none of current_video, resume_video and
\* resume_time, whatever ran before it and whatever is still scheduled.
C23_TickKeepsPlaybackState ==
    [][(last' = last /\ PeriodicUpdateOverlay) => UNCHANGED PlaybackState]_vars

C23_Witness ==
    /\ last.op = "handle_option"
    /\ last.opt.label = "Peek"
    /\ resume_video = "s2"
    /\ resume_time = 1
    /\ current_video = "s1b"
    /\ pending # <<>>
    /\ cq_visible

\* C24: the end-of-clip event, raised on the player's thread, changes no
\* PlaybackState field and no overlay or panel: it only appends
\* handle_video_end callbacks to the event loop's queue. Every change of
\* PlaybackState is made by a callback of the event loop (a selection, a skip
\* or a scheduled resume).
C24_CompletionOnlyEnqueues ==
    [][/\ (last'.op = "on_video_end" /\ MediaPlayerEndReached)
            => /\ UNCHANGED PlaybackState
               /\ UNCHANGED <<cq_visible, cq_buttons, interrupt_visible,
                              normal_section, normal_visible, normal_buttons>>
               /\ Len(pending') > Len(pending)
               /\ SubSeq(pending', 1, Len(pending)) = pending
               /\ \A i \in (Len(pending) + 1)..Len(pending') :
                     pending'[i].kind = "handle_video_end"
       /\ (PlaybackState' # PlaybackState)
            => \/ \E o \in AllOptions : Selects(o)
               \/ Skips
               \/ Resumes]_vars

C24_Witness ==
    /\ last.op = "on_video_end"
    /\ player_state = "Ended"
    /\ resume_video = "s2"
    /\ current_video = "s1b"
    /\ pending # <<>>
    /\ pending[Len(pending)].kind = "handle_video_end"
    /\ pending[Len(pending)].for = "s1b"

\* C25: while a clip is playing the continue/question overlay is hidden, and
\* the reposition tick leaves a hidden overlay hidden.
C25_OverlayHiddenWhilePlaying ==
    [][/\ (player_state' = "Playing") => ~cq_visible'
       /\ (~cq_visible /\ last' = last /\ PeriodicUpdateOverlay) => ~cq_visible']_vars

\* C26: skip_interrupt called with resume_video = None, from the skip button
\* or as the resume scheduled at the end of a clip, changes no PlaybackState
\* field, clears no overlay or panel, and issues no command to the player
\* and schedules nothing.
C26_SkipWithoutInterruptionIsNoOp ==
    [][(resume_video = None /\ (Skips \/ Resumes))
          => /\ UNCHANGED PlaybackState
             /\ cmds' = <<>>
             /\ UNCHANGED <<player_media, player_state, attached,
                            cq_visible, cq_buttons, interrupt_visible,
                            normal_section, normal_visible, normal_buttons,
                            skip_visible>>
             /\ \A i \in DOMAIN pending' :
                   \E j \in DOMAIN pending : pending[j] = pending'[i]
             /\ Len(pending') <= Len(pending)]_vars

C26_Witness ==
    /\ last.op = "after_skip_interrupt"
    /\ ~last.interrupted
    /\ resume_video = None
    /\ current_video = "s2"
    /\ player_state = "Playing"
    /\ cmds = <<>>

====
